---- MODULE Spec2Model ----
(***************************************************************************)
(* A model of the SNS message validator (MessageValidator.prototype.       *)
(* validate and the functions it calls) as a state machine.                *)
(*                                                                         *)
(* JavaScript values are records [t, s]: t is the type tag and s the       *)
(* string content as a sequence of tokens (a token stands for a run of     *)
(* characters; "\n" is the newline the canonical string is built with).    *)
(* An envelope (a JavaScript object) is a function whose DOMAIN is the set  *)
(* of keys present, so `key in message` is key \in DOMAIN message.         *)
(***************************************************************************)
EXTENDS Naturals, Integers, Sequences, FiniteSets, TLC

(***************************************************************************)
(* Bounds of the model.                                                    *)
(***************************************************************************)
\* number of validate calls of one run; ids are given in order of invocation
NumCalls == 2
\* the transport delivers a response body in at most this many 'data' events
MaxChunks == 2

(***************************************************************************)
(* JavaScript values.                                                      *)
(***************************************************************************)
Str(x) == [t |-> "string", s |-> <<x>>]
StrSeq(q) == [t |-> "string", s |-> q]
Null == [t |-> "null", s |-> <<>>]
Undefined == [t |-> "undefined", s |-> <<>>]
Num(x) == [t |-> "number", s |-> <<x>>]

\* the string a value turns into under `"..." + value`
StringOf(v) ==
    CASE v.t = "null" -> <<"null">>
      [] v.t = "undefined" -> <<"undefined">>
      [] OTHER -> v.s

\* message[key]
Get(message, key) == IF key \in DOMAIN message THEN message[key] ELSE Undefined
\* message[key] = value
Assign(message, key, value) ==
    [k \in DOMAIN message \cup {key} |-> IF k = key THEN value ELSE message[k]]
\* delete message[key]
Delete(message, key) == [k \in DOMAIN message \ {key} |-> message[k]]
EmptyHash == [k \in {} |-> Null]

(***************************************************************************)
(* The module-level tables of the validator.                               *)
(***************************************************************************)
subscriptionControlKeys == <<"SubscribeURL", "Token">>
subscriptionControlMessageTypesMutant == <<"SubscriptionConfirmation">>
subscriptionControlMessageTypes ==
    <<"SubscriptionConfirmation", "UnsubscribeConfirmation">>
requiredKeysMutant ==
    <<"Message", "MessageId", "Timestamp", "TopicArn", "Type",
      "SigningCertURL", "SignatureVersion">>
requiredKeys ==
    <<"Message", "MessageId", "Timestamp", "TopicArn", "Type",
      "Signature", "SigningCertURL", "SignatureVersion">>
signableKeysForNotification ==
    <<"Message", "MessageId", "Subject", "SubscribeURL", "Timestamp",
      "TopicArn", "Type">>
signableKeysForSubscription ==
    <<"Message", "MessageId", "Subject", "SubscribeURL", "Timestamp",
      "Token", "TopicArn", "Type">>
\* lambdaMessageKeys, in the order `for (key in lambdaMessageKeys)` visits it
lambdaMessageKeys ==
    << <<"SigningCertUrl", "SigningCertURL">>,
       <<"UnsubscribeUrl", "UnsubscribeURL">> >>

(***************************************************************************)
(* Errors handed to the callback, as the token sequence of their message.  *)
(***************************************************************************)
NoError == <<>>
MissingKeysError == <<"Message missing required keys.">>
InvalidDomainError == <<"The certificate is located on an invalid domain.">>
InvalidSignatureError == <<"The message signature is invalid.">>
CertRetrievalError == <<"Certificate could not be retrieved">>
UnsupportedVersionError(signatureVersion) ==
    <<"The signature version ">> \o StringOf(signatureVersion)
        \o <<" is not supported.">>
\* exceptions raised by the runtime and its libraries
JsonSyntaxError == <<"SyntaxError: Unexpected token in JSON">>
InOperatorTypeError == <<"TypeError: Cannot use 'in' operator">>
UrlParseTypeError == <<"TypeError: The \"url\" argument must be of type string">>
PemError == <<"Error: PEM routines: no start line">>
SignatureTypeError == <<"TypeError: The \"signature\" argument must be of type string">>
TransportError == <<"Error: connect ECONNREFUSED">>
CallbackException == <<"Error thrown by the caller's callback">>
NoException == <<>>

(***************************************************************************)
(* hashHasKeys, indexOf                                                    *)
(***************************************************************************)
hashHasKeys(hash, keys) == \A i \in 1..Len(keys) : keys[i] \in DOMAIN hash

\* the 0-based index of the first element === value, or -1
indexOf(array, value) ==
    IF \E i \in 1..Len(array) : value = Str(array[i])
    THEN (CHOOSE i \in 1..Len(array) :
            /\ value = Str(array[i])
            /\ \A j \in 1..(i-1) : value # Str(array[j])) - 1
    ELSE -1

(***************************************************************************)
(* convertLambdaMessage                                                    *)
(***************************************************************************)
RECURSIVE CopyLambdaKeys(_, _)
CopyLambdaKeys(message, i) ==
    IF i > Len(lambdaMessageKeys) THEN message
    ELSE CopyLambdaKeys(
            IF lambdaMessageKeys[i][1] \in DOMAIN message
            THEN Assign(message, lambdaMessageKeys[i][2],
                        message[lambdaMessageKeys[i][1]])
            ELSE message,
            i + 1)

convertLambdaMessage(message) ==
    LET copied == CopyLambdaKeys(message, 1)
    IN IF "Subject" \in DOMAIN copied /\ copied["Subject"] = Null
       THEN Delete(copied, "Subject")
       ELSE copied

(***************************************************************************)
(* validateMessageStructure                                                *)
(***************************************************************************)
validateMessageStructure(message) ==
    LET valid == hashHasKeys(message, requiredKeys)
    IN IF indexOf(subscriptionControlMessageTypes, Get(message, "Type")) > -1
       THEN valid /\ hashHasKeys(message, subscriptionControlKeys)
       ELSE valid

(***************************************************************************)
(* url.parse and validateUrl.  A URL string is the token sequence          *)
(* <<protocol, "//", host, path tokens...>>; any other string has no       *)
(* protocol.  A host is one token; HostLabels is its split at the dots.    *)
(***************************************************************************)
TrustedHost == "sns.us-east-1.amazonaws.com"
SuffixedHost == "sns.us-east-1.amazonaws.com.evil.net"
ShortRegionHost == "sns.us.amazonaws.com"
LocalHost == "localhost:56789"

HostLabels(host) ==
    CASE host = TrustedHost -> <<"sns", "us-east-1", "amazonaws", "com">>
      [] host = SuffixedHost ->
            <<"sns", "us-east-1", "amazonaws", "com", "evil", "net">>
      [] host = ShortRegionHost -> <<"sns", "us", "amazonaws", "com">>
      [] OTHER -> <<host>>

\* the labels of the model that match [a-zA-Z0-9\-]{3,}
RegionLabels == {"us-east-1", "sns", "amazonaws", "com", "evil", "net"}

\* /^sns\.[a-zA-Z0-9\-]{3,}\.amazonaws\.com(\.cn)?$/.test(host)
defaultHostPattern(host) ==
    LET l == HostLabels(host)
    IN /\ Len(l) \in {4, 5}
       /\ l[1] = "sns"
       /\ l[2] \in RegionLabels
       /\ l[3] = "amazonaws"
       /\ l[4] = "com"
       /\ Len(l) = 5 => l[5] = "cn"

\* /^localhost:56789$/.test(host), the pattern the tests construct with
localHostPattern(host) == host = LocalHost

\* hostPattern.test(host) for the pattern a validator was constructed with
HostPatternTest(hostPattern, host) ==
    IF hostPattern = "default" THEN defaultHostPattern(host)
    ELSE localHostPattern(host)

urlParse(urlToValidate) ==
    LET s == urlToValidate.s
    IN IF Len(s) >= 3 /\ s[2] = "//"
       THEN [protocol |-> s[1], host |-> s[3],
             path |-> IF Len(s) > 3 THEN SubSeq(s, 4, Len(s)) ELSE <<"/">>]
       ELSE [protocol |-> "", host |-> "", path |-> s]

\* url.parse throws on an argument that is not a string
urlParseThrows(urlToValidate) == urlToValidate.t # "string"

validateUrlMutant(urlToValidate, hostPattern) ==
    LET parsed == urlParse(urlToValidate)
    IN /\ parsed.protocol = "https:"
       /\ parsed.path[Len(parsed.path)] = ".pem"

validateUrl(urlToValidate, hostPattern) ==
    LET parsed == urlParse(urlToValidate)
    IN /\ parsed.protocol = "https:"
       /\ parsed.path[Len(parsed.path)] = ".pem"
       /\ HostPatternTest(hostPattern, parsed.host)

Url(protocol, host, ext) == StrSeq(<<protocol, "//", host, "/cert", ext>>)

(***************************************************************************)
(* Signing and verification.  A certificate is the PEM text of a key; a    *)
(* signature is the base64 text of (key, algorithm, signed data).          *)
(***************************************************************************)
SnsKey == "snsKey"
OtherKey == "otherKey"
Pem(key) == <<key, "-----END CERTIFICATE-----">>
Garbage == <<"garbage">>
IsPem(certificate) ==
    /\ Len(certificate) = 2
    /\ certificate[2] = "-----END CERTIFICATE-----"

Sign(key, algorithm, data) == StrSeq(<<"sig", key, algorithm>> \o data)

\* crypto.createVerify(...) by signature version
VerifierAlgorithm(signatureVersion) ==
    IF signatureVersion = Str("1") THEN "RSA-SHA1" ELSE "RSA-SHA256"

\* verifier.verify(certificate, signature, 'base64'): "true", "false" or the
\* exception it raises
verify(algorithm, data, certificate, signature) ==
    IF signature.t # "string" THEN SignatureTypeError
    ELSE IF ~IsPem(certificate) THEN PemError
    ELSE IF signature = Sign(certificate[1], algorithm, data) THEN <<"true">>
    ELSE <<"false">>

(***************************************************************************)
(* validateSignature: the version check, the list of signable keys and     *)
(* the data fed to the verifier.                                           *)
(***************************************************************************)
versionUnsupportedMutant(signatureVersion) == signatureVersion.t # "string"
versionUnsupported(signatureVersion) ==
    signatureVersion # Str("1") /\ signatureVersion # Str("2")

signableKeysOf(message) ==
    IF Get(message, "Type") = Str("SubscriptionConfirmation")
    THEN signableKeysForSubscription
    ELSE signableKeysForNotification

RECURSIVE verifierData(_, _, _)
verifierData(message, signableKeys, i) ==
    IF i > Len(signableKeys) THEN <<>>
    ELSE (IF signableKeys[i] \in DOMAIN message
          THEN <<signableKeys[i], "\n">> \o StringOf(message[signableKeys[i]])
                   \o <<"\n">>
          ELSE <<>>)
         \o verifierData(message, signableKeys, i + 1)

(***************************************************************************)
(* Invocations of the caller's callback.  cb(err) and cb(null, message)    *)
(* are recorded as records; a callback that throws does so each time it is *)
(* invoked.                                                                *)
(***************************************************************************)
CbErr(e) == [err |-> e, hasMsg |-> FALSE, msg |-> EmptyHash]
CbOk(message) == [err |-> NoError, hasMsg |-> TRUE, msg |-> message]

\* cb(err) outside any try block: an exception of cb leaves the handler
reportError(e, cbThrows) ==
    [cbCalls |-> <<CbErr(e)>>,
     threw |-> IF cbThrows THEN CallbackException ELSE NoException,
     verified |-> <<>>]

\* the try/catch of validateSignature around verifier.verify and cb
verifyAndReportMutant(message, algorithm, data, certificate, cbThrows) ==
    LET r == verify(algorithm, data, certificate, Get(message, "Signature"))
        first == IF r = <<"true">> THEN CbOk(message)
                 ELSE CbErr(InvalidSignatureError)
    IN [cbCalls |-> IF cbThrows THEN <<first, CbErr(CallbackException)>>
                    ELSE <<first>>,
        threw |-> IF cbThrows THEN CallbackException ELSE NoException,
        verified |-> r]

verifyAndReport(message, algorithm, data, certificate, cbThrows) ==
    LET r == verify(algorithm, data, certificate, Get(message, "Signature"))
        first == IF r = <<"true">> THEN CbOk(message)
                 ELSE CbErr(InvalidSignatureError)
    IN IF r \notin {<<"true">>, <<"false">>}
       THEN \* verify threw: catch (e) { cb(e); }
            [cbCalls |-> <<CbErr(r)>>,
             threw |-> IF cbThrows THEN CallbackException ELSE NoException,
             verified |-> r]
       ELSE IF cbThrows
       THEN \* cb threw inside the try block: catch (e) { cb(e); }
            [cbCalls |-> <<first, CbErr(CallbackException)>>,
             threw |-> CallbackException,
             verified |-> r]
       ELSE [cbCalls |-> <<first>>, threw |-> NoException, verified |-> r]

(***************************************************************************)
(* State.                                                                  *)
(***************************************************************************)
VARIABLES
    certCache,  \* the module-level certificate cache: URL string -> text
    calls,      \* the validate calls, by id: position, locals and outcome
    offered     \* the inputs the callers of this run hold

vars == <<certCache, calls, offered>>

Calls == 1..NumCalls

NoInput ==
    [kind |-> "none", json |-> "none", hash |-> EmptyHash, cbThrows |-> FALSE,
     hostPattern |-> "default"]

IdleCall ==
    [pc |-> "idle", input |-> NoInput, hash |-> EmptyHash, signableKeys |-> <<>>,
     data |-> <<>>, algorithm |-> "", certUrl |-> <<>>, body |-> <<>>,
     sent |-> 0, chunks |-> <<>>, cbCalls |-> <<>>, threw |-> NoException,
     gets |-> 0, certificate |-> <<>>, verified |-> <<>>, after |-> {},
     status |-> 0, trace |-> <<>>]

\* the part of a call record a report sets
Ended(call, report) ==
    [call EXCEPT !.pc = "done", !.cbCalls = report.cbCalls,
                 !.threw = report.threw, !.verified = report.verified]

\* chunks.join('')
RECURSIVE join(_)
join(chunks) ==
    IF chunks = <<>> THEN <<>> ELSE Head(chunks) \o join(Tail(chunks))

\* certCache.hasOwnProperty(certUrl)
cacheHasMutant(cache, certUrl) == FALSE
cacheHas(cache, certUrl) == certUrl \in DOMAIN cache

(***************************************************************************)
(* MessageValidator.prototype.validate, up to its return: the parse, the   *)
(* normalisation, the two checks and validateSignature up to the point     *)
(* where getCertificate answers from the cache or issues the GET.          *)
(***************************************************************************)
validateSignature(call, message, cache, cbThrows) ==
    LET signatureVersion == Get(message, "SignatureVersion")
        signableKeys == signableKeysOf(message)
        algorithm == VerifierAlgorithm(signatureVersion)
        data == verifierData(message, signableKeys, 1)
        certUrl == Get(message, "SigningCertURL").s
        signing == [call EXCEPT !.signableKeys = signableKeys,
                                !.algorithm = algorithm, !.data = data,
                                !.certUrl = certUrl,
                                !.trace = @ \o <<"version", "update",
                                                 "getCertificate">>]
    IN IF versionUnsupported(signatureVersion)
       THEN Ended([call EXCEPT !.trace = Append(@, "version")],
                  reportError(UnsupportedVersionError(signatureVersion),
                              cbThrows))
       ELSE IF cacheHas(cache, certUrl)
       THEN Ended([signing EXCEPT !.certificate = cache[certUrl],
                                  !.trace = Append(@, "verify")],
                  verifyAndReport(message, algorithm, data, cache[certUrl],
                                  cbThrows))
       ELSE [signing EXCEPT !.pc = "fetching", !.gets = @ + 1]

\* validate with the two checks in the other order
validateMutant(call, input, cache) ==
    LET parsed == IF input.kind = "text" THEN <<"parse">> ELSE <<>>
    IN IF input.kind = "text" /\ input.json = "malformed"
       THEN Ended([call EXCEPT !.trace = parsed],
                  reportError(JsonSyntaxError, input.cbThrows))
       ELSE IF input.json = "null"
       THEN [call EXCEPT !.pc = "done", !.threw = InOperatorTypeError,
                         !.trace = Append(parsed, "normalize")]
       ELSE LET hash == convertLambdaMessage(input.hash)
                normalized ==
                    [call EXCEPT !.hash = hash,
                                 !.trace = parsed \o <<"normalize", "url">>]
                checked == [normalized EXCEPT !.trace = Append(@, "structure")]
            IN IF urlParseThrows(Get(hash, "SigningCertURL"))
               THEN [normalized EXCEPT !.pc = "done",
                                       !.threw = UrlParseTypeError]
               ELSE IF ~validateUrl(hash["SigningCertURL"], input.hostPattern)
               THEN Ended(normalized,
                          reportError(InvalidDomainError, input.cbThrows))
               ELSE IF ~validateMessageStructure(hash)
               THEN Ended(checked,
                          reportError(MissingKeysError, input.cbThrows))
               ELSE validateSignature(checked, hash, cache, input.cbThrows)

validate(call, input, cache) ==
    LET parsed == IF input.kind = "text" THEN <<"parse">> ELSE <<>>
    IN IF input.kind = "text" /\ input.json = "malformed"
       THEN Ended([call EXCEPT !.trace = parsed],
                  reportError(JsonSyntaxError, input.cbThrows))
       ELSE IF input.json = "null"
       THEN \* `key in message` on null
            [call EXCEPT !.pc = "done", !.threw = InOperatorTypeError,
                         !.trace = Append(parsed, "normalize")]
       ELSE LET hash == convertLambdaMessage(input.hash)
                normalized ==
                    [call EXCEPT !.hash = hash,
                                 !.trace = parsed \o <<"normalize", "structure">>]
                checked == [normalized EXCEPT !.trace = Append(@, "url")]
            IN IF ~validateMessageStructure(hash)
               THEN Ended(normalized,
                          reportError(MissingKeysError, input.cbThrows))
               ELSE IF urlParseThrows(hash["SigningCertURL"])
               THEN [checked EXCEPT !.pc = "done", !.threw = UrlParseTypeError]
               ELSE IF ~validateUrl(hash["SigningCertURL"], input.hostPattern)
               THEN Ended(checked,
                          reportError(InvalidDomainError, input.cbThrows))
               ELSE validateSignature(checked, hash, cache, input.cbThrows)

(***************************************************************************)
(* The inputs of a run.  An input is what one validate call is given: the  *)
(* envelope as an object, or text that parses to it (or to null, or not    *)
(* at all), the callback (does it throw?) and the validator it is called   *)
(* on (its hostPattern).                                                   *)
(***************************************************************************)
Obj(hash) ==
    [kind |-> "object", json |-> "object", hash |-> hash, cbThrows |-> FALSE,
     hostPattern |-> "default"]
Text(hash) == [Obj(hash) EXCEPT !.kind = "text"]
MalformedText == [Obj(EmptyHash) EXCEPT !.kind = "text", !.json = "malformed"]
NullText == [Obj(EmptyHash) EXCEPT !.kind = "text", !.json = "null"]
Throwing(input) == [input EXCEPT !.cbThrows = TRUE]
OnLocal(input) == [input EXCEPT !.hostPattern = "localhost"]

\* the producer's signature (the signing loop of the test suite): every key
\* of signableKeysForSubscription the envelope has, a null Subject skipped
RECURSIVE producerData(_, _)
producerData(message, j) ==
    IF j > Len(signableKeysForSubscription) THEN <<>>
    ELSE LET key == signableKeysForSubscription[j]
         IN (IF key \in DOMAIN message
                 /\ ~(key = "Subject" /\ message[key] = Null)
             THEN <<key, "\n">> \o StringOf(message[key]) \o <<"\n">>
             ELSE <<>>)
            \o producerData(message, j + 1)

producerSign(key, message) ==
    Assign(message, "Signature",
           Sign(key, VerifierAlgorithm(Get(message, "SignatureVersion")),
                producerData(message, 1)))

\* a signature over exactly the data the validator feeds its verifier
validatorSign(key, message) ==
    LET m == convertLambdaMessage(message)
    IN Assign(message, "Signature",
              Sign(key, VerifierAlgorithm(Get(m, "SignatureVersion")),
                   verifierData(m, signableKeysOf(m), 1)))

TrustedUrl == Url("https:", TrustedHost, ".pem")

unsignedMessage ==
    ("Type" :> Str("Notification")) @@ ("MessageId" :> Str("1"))
    @@ ("TopicArn" :> Str("arn")) @@ ("Message" :> Str("A message for you!"))
    @@ ("Timestamp" :> Str("2019-01-01T00:00:00Z"))
    @@ ("SignatureVersion" :> Str("1")) @@ ("SigningCertURL" :> TrustedUrl)

unsignedLambdaMessage ==
    Assign(Assign(Delete(unsignedMessage, "SigningCertURL"),
                  "SigningCertUrl", TrustedUrl),
           "Subject", Null)

unsignedSubscriptionControlMessage ==
    Assign(Assign(Assign(unsignedMessage, "Token", Str("Nonce")),
                  "SubscribeURL", Str("https://www.amazonaws.com")),
           "Type", Str("SubscriptionConfirmation"))

unsignedUnsubscribeMessage ==
    Assign(unsignedSubscriptionControlMessage,
           "Type", Str("UnsubscribeConfirmation"))

unsignedSubjectMessage == Assign(unsignedMessage, "Subject", Str("Hello"))

validMessage == producerSign(SnsKey, unsignedMessage)
validLambdaMessage == producerSign(SnsKey, unsignedLambdaMessage)
validSubscriptionControlMessage ==
    producerSign(SnsKey, unsignedSubscriptionControlMessage)
validUnsubscribeMessage == producerSign(SnsKey, unsignedUnsubscribeMessage)
validSubjectMessage == producerSign(SnsKey, unsignedSubjectMessage)

\* an envelope changed after signing, the signature kept
Tampered(message, key, value) == Assign(message, key, value)

ScenarioInterface ==
    {Obj(validMessage), Text(validMessage), MalformedText}

ScenarioThrowingCallback ==
    {Obj(validMessage), Throwing(Obj(validMessage)), NullText}

ScenarioMissingA ==
    {Obj(Delete(validMessage, k)) :
        k \in {"Message", "MessageId", "Timestamp", "TopicArn"}}
    \cup {Throwing(Obj(Delete(validMessage, "Message")))}

ScenarioMissingB ==
    {Obj(Delete(validMessage, k)) :
        k \in {"Type", "Signature", "SigningCertURL", "SignatureVersion"}}
    \cup {Obj(Delete(validLambdaMessage, "SigningCertUrl")),
          Obj(Delete(Tampered(Tampered(validMessage, "SigningCertURL",
                                       Url("http:", SuffixedHost, ".crt")),
                              "SignatureVersion", Str("3")),
                     "MessageId"))}

ScenarioSubscription ==
    {Obj(validSubscriptionControlMessage), Obj(validMessage),
     Obj(Delete(validSubscriptionControlMessage, "Token")),
     Obj(Delete(validSubscriptionControlMessage, "SubscribeURL")),
     Obj(Delete(validUnsubscribeMessage, "Token")),
     Obj(Delete(validUnsubscribeMessage, "SubscribeURL"))}

ScenarioDomain ==
    {Obj(Tampered(validMessage, "SigningCertURL", u)) :
        u \in {Url("https:", SuffixedHost, ".pem"),
               Url("https:", ShortRegionHost, ".pem"),
               Url("http:", TrustedHost, ".pem"),
               Url("https:", TrustedHost, ".crt"),
               Str("not a url")}}
    \cup {Obj(validMessage)}

ScenarioLocalValidator ==
    {OnLocal(Obj(validMessage)),
     OnLocal(Obj(Tampered(validMessage, "SigningCertURL",
                          Url("https:", LocalHost, ".pem")))),
     Obj(Tampered(validMessage, "SigningCertURL",
                  Url("https:", LocalHost, ".pem"))),
     Obj(Tampered(validMessage, "SigningCertURL", Null)),
     Obj(Tampered(validMessage, "SigningCertURL", Num("1")))}

ScenarioVersion ==
    {Obj(validMessage),
     Obj(producerSign(SnsKey,
                      Assign(unsignedMessage, "SignatureVersion", Str("2")))),
     Obj(Tampered(validMessage, "SignatureVersion", Str("3"))),
     Obj(Tampered(validMessage, "SignatureVersion", Null)),
     Obj(Tampered(validMessage, "SignatureVersion", Num("1"))),
     Throwing(Obj(Tampered(validMessage, "SignatureVersion", Str("3"))))}

NotASignature == Str("Tk9UIEEgVkFMSUQgU0lHTkFUVVJF")

ScenarioSignatureA ==
    {Obj(validMessage),
     Obj(Tampered(validMessage, "Signature", NotASignature)),
     Obj(Tampered(validMessage, "Signature", Null))}

ScenarioSignatureB ==
    {Obj(validMessage),
     Obj(producerSign(OtherKey, unsignedMessage)),
     Throwing(Obj(Tampered(validMessage, "Signature", NotASignature)))}

ScenarioTamperNotificationA ==
    {Obj(validSubjectMessage),
     Obj(Tampered(validSubjectMessage, "Message", Str("changed"))),
     Obj(Tampered(validSubjectMessage, "MessageId", Str("changed")))}

ScenarioTamperNotificationB ==
    {Obj(validSubjectMessage),
     Obj(Tampered(validSubjectMessage, "Subject", Str("changed"))),
     Obj(Tampered(validSubjectMessage, "Timestamp", Str("changed")))}

ScenarioTamperNotificationC ==
    {Obj(validSubjectMessage),
     Obj(Tampered(validSubjectMessage, "TopicArn", Str("changed"))),
     Obj(Tampered(validSubjectMessage, "Type", Str("changed")))}

ScenarioTamperNotificationD ==
    {Obj(validSubjectMessage),
     Obj(Tampered(validSubjectMessage, "Type",
                  Str("SubscriptionConfirmation"))),
     Obj(Tampered(validSubjectMessage, "Subject", Null))}

ScenarioTamperSubscriptionA ==
    {Obj(validSubscriptionControlMessage),
     Obj(Tampered(validSubscriptionControlMessage, "SubscribeURL",
                  Str("changed"))),
     Obj(Tampered(validSubscriptionControlMessage, "Token", Str("changed")))}

ScenarioTamperSubscriptionB ==
    {Obj(validSubscriptionControlMessage),
     Obj(Tampered(validSubscriptionControlMessage, "Type",
                  Str("UnsubscribeConfirmation"))),
     Obj(Tampered(validSubscriptionControlMessage, "Type",
                  Str("Notification")))}

ScenarioTamperUnsubscribeA ==
    {Obj(validUnsubscribeMessage),
     Obj(validatorSign(SnsKey, unsignedUnsubscribeMessage)),
     Obj(Tampered(validatorSign(SnsKey, unsignedUnsubscribeMessage),
                  "Token", Str("changed")))}

ScenarioTamperUnsubscribeB ==
    {Obj(validatorSign(SnsKey, unsignedUnsubscribeMessage)),
     Obj(Tampered(validatorSign(SnsKey, unsignedUnsubscribeMessage),
                  "SubscribeURL", Str("changed")))}

ScenarioNullMessage ==
    {Obj(producerSign(SnsKey, Assign(unsignedMessage, "Message", Str("null")))),
     Obj(Tampered(producerSign(SnsKey, Assign(unsignedMessage, "Message",
                                              Str("null"))),
                  "Message", Null))}

ScenarioLambda ==
    {Obj(validLambdaMessage), Text(validLambdaMessage)}

\* envelopes that carry the certificate URL under both casings
ScenarioBothCasings ==
    {Obj(Assign(validMessage, "SigningCertUrl",
                Url("https:", SuffixedHost, ".pem"))),
     Obj(Assign(Tampered(validMessage, "SigningCertURL",
                         Url("https:", SuffixedHost, ".pem")),
                "SigningCertUrl", TrustedUrl)),
     Obj(Assign(validLambdaMessage, "UnsubscribeUrl",
                Str("https://unsubscribe")))}

\* two envelopes whose certificates are at different trusted URLs
OtherTrustedUrl == StrSeq(<<"https:", "//", TrustedHost, "/other", ".pem">>)
ScenarioTwoUrls ==
    {Obj(validMessage),
     Obj(Tampered(validMessage, "SigningCertURL", OtherTrustedUrl))}

OfferedSets ==
    {ScenarioInterface, ScenarioThrowingCallback, ScenarioMissingA,
     ScenarioMissingB, ScenarioSubscription, ScenarioDomain,
     ScenarioLocalValidator, ScenarioVersion, ScenarioSignatureA,
     ScenarioSignatureB, ScenarioTamperNotificationA,
     ScenarioTamperNotificationB, ScenarioTamperNotificationC,
     ScenarioTamperNotificationD, ScenarioTamperSubscriptionA,
     ScenarioTamperSubscriptionB, ScenarioTamperUnsubscribeA,
     ScenarioTamperUnsubscribeB, ScenarioNullMessage, ScenarioLambda,
     ScenarioBothCasings, ScenarioTwoUrls}

(***************************************************************************)
(* The network: what a GET of a certificate URL may answer.                *)
(***************************************************************************)
StatusCodes == {200, 404}
Bodies == {Pem(SnsKey), Garbage}

(***************************************************************************)
(* Actions.                                                                *)
(***************************************************************************)
Init ==
    /\ certCache = [u \in {} |-> <<>>]
    /\ calls = [c \in Calls |-> IdleCall]
    /\ offered \in OfferedSets

\* validator.validate(input, cb), up to its return
Validate(c) ==
    /\ calls[c].pc = "idle"
    /\ c > 1 => calls[c - 1].pc # "idle"
    /\ \E input \in offered :
          calls' = [calls EXCEPT ![c] =
                      validate([IdleCall EXCEPT
                                  !.input = input,
                                  !.after = {d \in Calls :
                                               calls[d].pc = "done"}],
                               input, certCache)]
    /\ UNCHANGED <<certCache, offered>>

\* the response callback of https.get without the check of the status
ResponseMutant(c) ==
    /\ calls[c].pc = "fetching"
    /\ \E status \in StatusCodes :
          \E body \in Bodies :
             calls' = [calls EXCEPT ![c].pc = "receiving",
                                    ![c].status = status,
                                    ![c].body = body,
                                    ![c].sent = 0,
                                    ![c].chunks = <<>>]
    /\ UNCHANGED <<certCache, offered>>

\* the response callback of https.get
Response(c) ==
    /\ calls[c].pc = "fetching"
    /\ \E status \in StatusCodes :
          IF status # 200
          THEN calls' = [calls EXCEPT ![c] =
                           Ended([@ EXCEPT !.status = status],
                                 reportError(CertRetrievalError,
                                             @.input.cbThrows))]
          ELSE \E body \in Bodies :
                  calls' = [calls EXCEPT ![c].pc = "receiving",
                                         ![c].status = status,
                                         ![c].body = body,
                                         ![c].sent = 0,
                                         ![c].chunks = <<>>]
    /\ UNCHANGED <<certCache, offered>>

\* res.on('data'): the next n tokens of the body arrive
Data(c) ==
    /\ calls[c].pc = "receiving"
    /\ Len(calls[c].chunks) < MaxChunks
    /\ \E n \in 1..(Len(calls[c].body) - calls[c].sent) :
          /\ Len(calls[c].chunks) = MaxChunks - 1
                => n = Len(calls[c].body) - calls[c].sent
          /\ calls' = [calls EXCEPT
                         ![c].chunks =
                            Append(@, SubSeq(calls[c].body, calls[c].sent + 1,
                                             calls[c].sent + n)),
                         ![c].sent = @ + n]
    /\ UNCHANGED <<certCache, offered>>

\* res.on('end') where an entry the cache already has is kept and used
EndFirstWriterMutant(c) ==
    /\ calls[c].pc = "receiving"
    /\ calls[c].sent = Len(calls[c].body)
    /\ LET call == calls[c]
           certificate == IF call.certUrl \in DOMAIN certCache
                          THEN certCache[call.certUrl]
                          ELSE join(call.chunks)
       IN /\ certCache' =
                [u \in DOMAIN certCache \cup {call.certUrl} |->
                    IF u = call.certUrl THEN certificate ELSE certCache[u]]
          /\ calls' = [calls EXCEPT ![c] =
                Ended([call EXCEPT !.certificate = certificate,
                                   !.chunks = <<>>,
                                   !.trace = Append(@, "verify")],
                      verifyAndReport(call.hash, call.algorithm, call.data,
                                      certificate, call.input.cbThrows))]
    /\ UNCHANGED offered

\* res.on('end') where the cache keeps the latest certificate only
EndEvictingMutant(c) ==
    /\ calls[c].pc = "receiving"
    /\ calls[c].sent = Len(calls[c].body)
    /\ LET call == calls[c]
           certificate == join(call.chunks)
       IN /\ certCache' =
                [u \in {call.certUrl} |-> certificate]
          /\ calls' = [calls EXCEPT ![c] =
                Ended([call EXCEPT !.certificate = certificate,
                                   !.chunks = <<>>,
                                   !.trace = Append(@, "verify")],
                      verifyAndReport(call.hash, call.algorithm, call.data,
                                      certificate, call.input.cbThrows))]
    /\ UNCHANGED offered

\* res.on('end'): the cache is written and the signature verified
End(c) ==
    /\ calls[c].pc = "receiving"
    /\ calls[c].sent = Len(calls[c].body)
    /\ LET call == calls[c]
           certificate == join(call.chunks)
       IN /\ certCache' =
                [u \in DOMAIN certCache \cup {call.certUrl} |->
                    IF u = call.certUrl THEN certificate ELSE certCache[u]]
          /\ calls' = [calls EXCEPT ![c] =
                Ended([call EXCEPT !.certificate = certificate,
                                   !.chunks = <<>>,
                                   !.trace = Append(@, "verify")],
                      verifyAndReport(call.hash, call.algorithm, call.data,
                                      certificate, call.input.cbThrows))]
    /\ UNCHANGED offered

\* the 'error' event of the request
RequestError(c) ==
    /\ calls[c].pc = "fetching"
    /\ calls' = [calls EXCEPT ![c] =
                   Ended(@, reportError(TransportError, @.input.cbThrows))]
    /\ UNCHANGED <<certCache, offered>>

Next ==
    \E c \in Calls :
        \/ Validate(c)
        \/ Response(c)
        \/ Data(c)
        \/ End(c)
        \/ RequestError(c)

Spec == Init /\ [][Next]_vars

(***************************************************************************)
(* Vocabulary of the properties.                                           *)
(***************************************************************************)
Started(c) == calls[c].pc # "idle"
Done(c) == calls[c].pc = "done"
IsEnvelope(c) == calls[c].input.json = "object"
\* the callback was invoked exactly once, with this error and no message
ReportedOnly(c, e) == calls[c].cbCalls = <<CbErr(e)>>
\* the first invocation of the callback was a success
ReportedValid(c) ==
    /\ calls[c].cbCalls # <<>>
    /\ calls[c].cbCalls[1].hasMsg
    /\ calls[c].cbCalls[1].err = NoError
NeverValid(c) ==
    \A i \in 1..Len(calls[c].cbCalls) : ~calls[c].cbCalls[i].hasMsg

BaselineKeys ==
    {"Message", "MessageId", "Timestamp", "TopicArn", "Type", "Signature",
     "SigningCertURL", "SignatureVersion"}
\* the key is absent from the envelope, under either casing
Lacks(hash, key) ==
    /\ key \notin DOMAIN hash
    /\ key = "SigningCertURL" => "SigningCertUrl" \notin DOMAIN hash
IsSubscriptionControl(hash) ==
    Get(hash, "Type") \in
        {Str("SubscriptionConfirmation"), Str("UnsubscribeConfirmation")}
\* the certificate URL of an envelope, whichever casing carries it
CertUrlOf(hash) == Get(convertLambdaMessage(hash), "SigningCertURL")
StructurallyComplete(hash) ==
    /\ \A k \in BaselineKeys : ~Lacks(hash, k)
    /\ IsSubscriptionControl(hash) =>
          {"SubscribeURL", "Token"} \subseteq DOMAIN hash
HasTrustedUrl(c) ==
    LET u == CertUrlOf(calls[c].input.hash)
    IN /\ u.t = "string"
       /\ Len(u.s) > 3
       /\ u.s[1] = "https:"
       /\ u.s[2] = "//"
       /\ u.s[Len(u.s)] = ".pem"
       /\ HostPatternTest(calls[c].input.hostPattern, u.s[3])

\* C1: every validate call invokes cb exactly once, with an error and no
\* message or with no error and the envelope: never twice, and a call that
\* has ended has invoked it.
C1_CallbackExactlyOnce ==
    \A c \in Calls :
        /\ Len(calls[c].cbCalls) <= 1
        /\ Done(c) =>
              /\ Len(calls[c].cbCalls) = 1
              /\ \/ /\ calls[c].cbCalls[1].err # NoError
                    /\ ~calls[c].cbCalls[1].hasMsg
                 \/ calls[c].cbCalls[1] = CbOk(calls[c].hash)

\* C2: a structurally complete envelope whose certificate URL has a host
\* outside the trust pattern is reported with the invalid-domain error and
\* nothing else, whatever its signature.
C2_UntrustedDomainRejected ==
    \A c \in Calls :
        (/\ Started(c)
         /\ IsEnvelope(c)
         /\ StructurallyComplete(calls[c].input.hash)
         /\ CertUrlOf(calls[c].input.hash).t = "string"
         /\ Len(CertUrlOf(calls[c].input.hash).s) >= 3
         /\ CertUrlOf(calls[c].input.hash).s[2] = "//"
         /\ ~HostPatternTest(calls[c].input.hostPattern,
                             CertUrlOf(calls[c].input.hash).s[3]))
        => /\ Done(c)
           /\ ReportedOnly(c, InvalidDomainError)
           /\ calls[c].gets = 0

\* a call on an envelope the producer signed, with an https .pem URL on a
\* host outside the pattern, has ended with the invalid-domain error
C2_Witness ==
    \E c \in Calls :
        /\ Done(c)
        /\ calls[c].input.hash =
              Tampered(validMessage, "SigningCertURL",
                       Url("https:", SuffixedHost, ".pem"))
        /\ verify("RSA-SHA1", producerData(calls[c].input.hash, 1),
                  Pem(SnsKey), calls[c].input.hash["Signature"]) = <<"true">>
        /\ ReportedOnly(c, InvalidDomainError)

\* an envelope as the claims call it valid: complete, trusted URL, supported
\* version, signed by the producer with the key of the certificate served
IsValidEnvelope(c) ==
    /\ IsEnvelope(c)
    /\ StructurallyComplete(calls[c].input.hash)
    /\ HasTrustedUrl(c)
    /\ Get(calls[c].input.hash, "SignatureVersion") \in {Str("1"), Str("2")}
    /\ calls[c].input.hash =
          producerSign(SnsKey, Delete(calls[c].input.hash, "Signature"))

\* C3: a valid envelope, once the certificate of the signing key has been
\* obtained, is handed to the callback with no error, equal key by key to
\* the envelope the caller passed in.
C3_ValidMessageReturned ==
    \A c \in Calls :
        (Done(c) /\ IsValidEnvelope(c) /\ calls[c].certificate = Pem(SnsKey))
        => calls[c].cbCalls[1] = CbOk(calls[c].input.hash)

\* the envelopes differ in the value of exactly one signed field
SignedFields(hash) ==
    {"Message", "MessageId", "Subject", "SubscribeURL", "Timestamp",
     "TopicArn", "Type"}
    \cup (IF IsSubscriptionControl(hash) THEN {"Token"} ELSE {})
SingleFieldChanged(hash, changed) ==
    /\ DOMAIN hash = DOMAIN changed
    /\ \E k \in SignedFields(hash) \cap DOMAIN hash :
          /\ hash[k] # changed[k]
          /\ \A j \in DOMAIN hash \ {k} : hash[j] = changed[j]

\* C4: when an envelope has been reported valid, the same envelope with one
\* signed field changed and the signature kept is never reported valid, and
\* once its signature has been verified the report is the signature error.
C4_TamperRejected ==
    \A c1, c2 \in Calls :
        (/\ Done(c1)
         /\ ReportedValid(c1)
         /\ Done(c2)
         /\ IsEnvelope(c2)
         /\ SingleFieldChanged(calls[c1].input.hash, calls[c2].input.hash))
        => /\ NeverValid(c2)
           /\ calls[c2].verified \in {<<"true">>, <<"false">>}
                 => calls[c2].cbCalls[1] = CbErr(InvalidSignatureError)

\* C5: an envelope that lacks one of the eight baseline keys (SigningCertURL
\* under both casings) is reported with 'Message missing required keys.'
\* and with nothing else.
C5_MissingBaselineKey ==
    \A c \in Calls :
        (/\ Started(c)
         /\ IsEnvelope(c)
         /\ \E k \in BaselineKeys : Lacks(calls[c].input.hash, k))
        => /\ Done(c)
           /\ ReportedOnly(c, MissingKeysError)

\* a call on an envelope that has every key but Signature has been reported
\* with the missing-keys error
C5_Witness ==
    \E c \in Calls :
        /\ Done(c)
        /\ IsEnvelope(c)
        /\ Lacks(calls[c].input.hash, "Signature")
        /\ \A k \in BaselineKeys \ {"Signature"} :
              ~Lacks(calls[c].input.hash, k)
        /\ ReportedOnly(c, MissingKeysError)

\* C6: with the eight baseline keys present, an envelope of type
\* SubscriptionConfirmation or UnsubscribeConfirmation that lacks
\* SubscribeURL or Token is reported with the missing-keys error; an
\* envelope of any other type is not, whether or not it has them.
C6_SubscriptionKeysRequired ==
    \A c \in Calls :
        (/\ Started(c)
         /\ IsEnvelope(c)
         /\ \A k \in BaselineKeys : ~Lacks(calls[c].input.hash, k))
        => IF IsSubscriptionControl(calls[c].input.hash)
           THEN ~({"SubscribeURL", "Token"} \subseteq
                     DOMAIN calls[c].input.hash)
                => Done(c) /\ ReportedOnly(c, MissingKeysError)
           ELSE \A i \in 1..Len(calls[c].cbCalls) :
                   calls[c].cbCalls[i].err # MissingKeysError

\* an UnsubscribeConfirmation without Token has been reported with the
\* missing-keys error, and a Notification without Token or SubscribeURL has
\* gone past the structural check
C6_Witness ==
    /\ \E c \in Calls :
          /\ calls[c].input.hash = Delete(validUnsubscribeMessage, "Token")
          /\ ReportedOnly(c, MissingKeysError)
    /\ \E c \in Calls :
          /\ calls[c].input.hash = validMessage
          /\ calls[c].pc \in {"fetching", "receiving", "done"}
          /\ calls[c].gets > 0 \/ calls[c].certificate # <<>>

C8_SecondCallFromCache ==
    \A c1, c2 \in Calls :
        (/\ Started(c2)
         /\ c1 \in calls[c2].after
         /\ ReportedValid(c1)
         /\ calls[c1].gets > 0
         /\ calls[c2].input.hash = calls[c1].input.hash
         /\ calls[c2].input.hostPattern = calls[c1].input.hostPattern
         /\ \A d \in Calls \ {c1, c2} : ~Started(d))
        => /\ calls[c1].gets = 1
           /\ calls[c2].gets = 0
           /\ Done(c2)
           /\ ReportedValid(c2)
           /\ calls[c2].certificate = calls[c1].certificate

\* two calls on the same envelope, the second begun after the first was
\* reported valid from a fetched certificate, and both reported valid
C8_Witness ==
    \E c1, c2 \in Calls :
        /\ c1 \in calls[c2].after
        /\ calls[c1].gets = 1
        /\ calls[c2].input.hash = calls[c1].input.hash
        /\ ReportedValid(c1)
        /\ ReportedValid(c2)

\* the exception verifier.verify raises for this call, if it raises one
VerifyRaised(c) ==
    verify(calls[c].algorithm, calls[c].data, calls[c].certificate,
           Get(calls[c].hash, "Signature"))
HasVerified(c) == Done(c) /\ calls[c].verified # <<>>

C10_SignableKeysByType ==
    \A c \in Calls :
        calls[c].signableKeys # <<>>
        => calls[c].signableKeys =
              IF IsSubscriptionControl(calls[c].hash)
              THEN <<"Message", "MessageId", "Subject", "SubscribeURL",
                     "Timestamp", "Token", "TopicArn", "Type">>
              ELSE <<"Message", "MessageId", "Subject", "SubscribeURL",
                     "Timestamp", "TopicArn", "Type">>

\* the canonical string as C11 states it: name, newline, value, newline for
\* the keys of the list that the envelope has with a value that is not null
RECURSIVE ClaimedCanonical(_, _, _)
ClaimedCanonical(hash, keys, i) ==
    IF i > Len(keys) THEN <<>>
    ELSE (IF keys[i] \in DOMAIN hash /\ hash[keys[i]].t # "null"
          THEN <<keys[i], "\n">> \o hash[keys[i]].s \o <<"\n">>
          ELSE <<>>)
         \o ClaimedCanonical(hash, keys, i + 1)

\* C11: the data fed to the verifier is '<name>\n<value>\n' for exactly the
\* keys of the selected list that the envelope has with a non-null value, in
\* list order; an absent or null field of any name contributes nothing.
C11_CanonicalSkipsNull ==
    \A c \in Calls :
        calls[c].signableKeys # <<>>
        => calls[c].data =
              ClaimedCanonical(calls[c].input.hash, calls[c].signableKeys, 1)

\* C12: normalisation writes SigningCertURL and UnsubscribeURL from
\* SigningCertUrl and UnsubscribeUrl only when the canonical key is absent; a
\* canonical key the envelope has keeps its value, so the URL that is fetched
\* is the SigningCertURL the caller supplied.
C12_CanonicalKeyKept ==
    \A c \in Calls :
        (Started(c) /\ IsEnvelope(c))
        => /\ \A p \in {<<"SigningCertUrl", "SigningCertURL">>,
                        <<"UnsubscribeUrl", "UnsubscribeURL">>} :
                 IF p[2] \in DOMAIN calls[c].input.hash
                 THEN /\ p[2] \in DOMAIN calls[c].hash
                      /\ calls[c].hash[p[2]] = calls[c].input.hash[p[2]]
                 ELSE IF p[1] \in DOMAIN calls[c].input.hash
                 THEN /\ p[2] \in DOMAIN calls[c].hash
                      /\ calls[c].hash[p[2]] = calls[c].input.hash[p[1]]
                 ELSE p[2] \notin DOMAIN calls[c].hash
           /\ (calls[c].gets > 0
               /\ "SigningCertURL" \in DOMAIN calls[c].input.hash)
                 => calls[c].certUrl = calls[c].input.hash["SigningCertURL"].s

\* C13: a GET answered with a status other than 200 ends the call with
\* 'Certificate could not be retrieved' and no certificate, and writes nothing
\* to the cache: every cache entry is the complete body of a 200 response to
\* a GET of its URL.
C13_NonOkNotCached ==
    /\ \A c \in Calls :
          calls[c].status \notin {0, 200}
          => /\ Done(c)
             /\ ReportedOnly(c, CertRetrievalError)
             /\ calls[c].certificate = <<>>
    /\ \A u \in DOMAIN certCache :
          \E c \in Calls :
             /\ Done(c)
             /\ calls[c].certUrl = u
             /\ calls[c].status = 200
             /\ calls[c].body = certCache[u]

\* a call whose GET was answered 404 has been reported with the retrieval
\* error and its URL is not in the cache
C13_Witness ==
    \E c \in Calls :
        /\ Done(c)
        /\ calls[c].status = 404
        /\ ReportedOnly(c, CertRetrievalError)
        /\ calls[c].certUrl \notin DOMAIN certCache

\* C14: calls that run concurrently on an uncached URL each issue a GET; the
\* call whose response ends verifies with the body of its own GET, and the
\* cache then holds that body, whatever it held before.
C14_LastWriterWins ==
    [][\A c \in Calls :
          (calls[c].pc = "receiving" /\ calls'[c].pc = "done")
          => /\ calls'[c].certificate = calls[c].body
             /\ calls[c].certUrl \in DOMAIN certCache'
             /\ certCache'[calls[c].certUrl] = calls[c].body]_vars

\* two calls on the same URL have each issued a GET, have ended with
\* different bodies, and the cache holds the body of the second
C14_Witness ==
    \E c1, c2 \in Calls :
        /\ c1 # c2
        /\ Done(c1) /\ Done(c2)
        /\ calls[c1].certUrl = calls[c2].certUrl
        /\ calls[c1].gets = 1 /\ calls[c2].gets = 1
        /\ calls[c1].certificate = Pem(SnsKey)
        /\ calls[c2].certificate = Garbage
        /\ certCache[calls[c2].certUrl] = Garbage

\* C15 as stated: once the cache holds a blob for a URL, every later state
\* holds the same blob for it.
C15_EntryNeverChanges ==
    [][\A u \in DOMAIN certCache :
          /\ u \in DOMAIN certCache'
          /\ certCache'[u] = certCache[u]]_vars

\* C15: an entry of the cache is never removed; its value changes only when
\* the response to a GET of its URL ends, to the body of that response; and
\* no GET is issued for a URL the cache holds, so such a GET was issued before
\* the entry existed.
C15_EntryKeptOrRewritten ==
    [][/\ \A u \in DOMAIN certCache :
             /\ u \in DOMAIN certCache'
             /\ certCache'[u] # certCache[u]
                   => \E c \in Calls :
                         /\ calls[c].pc = "receiving"
                         /\ calls'[c].pc = "done"
                         /\ calls[c].certUrl = u
                         /\ certCache'[u] = calls[c].body
       /\ \A c \in Calls :
             (calls[c].gets = 0 /\ calls'[c].gets > 0)
             => calls'[c].certUrl \notin DOMAIN certCache]_vars

\* a call that fetched its certificate has ended, and the cache now holds a
\* different blob for its URL, next to an entry for another URL
C15_Witness ==
    \E c \in Calls :
        /\ Done(c)
        /\ calls[c].gets = 1
        /\ calls[c].status = 200
        /\ calls[c].certUrl \in DOMAIN certCache
        /\ certCache[calls[c].certUrl] # calls[c].certificate

\* the position of a stage in an order of stages
Rank(order, stage) == CHOOSE i \in 1..Len(order) : order[i] = stage
\* the stages of the trace are stages of the order, in its order
InOrder(trace, order) ==
    /\ \A i \in 1..Len(trace) : \E j \in 1..Len(order) : order[j] = trace[i]
    /\ \A i \in 1..(Len(trace) - 1) :
          Rank(order, trace[i]) < Rank(order, trace[i + 1])
Ran(c, stage) == \E i \in 1..Len(calls[c].trace) : calls[c].trace[i] = stage
\* the checks of an envelope that end validate before the certificate is asked for
FailsStructure(c) == ~validateMessageStructure(calls[c].hash)
FailsUrl(c) ==
    /\ ~FailsStructure(c)
    /\ calls[c].hash["SigningCertURL"].t = "string"
    /\ ~validateUrl(calls[c].hash["SigningCertURL"], calls[c].input.hostPattern)
FailsVersion(c) ==
    /\ ~FailsStructure(c)
    /\ calls[c].hash["SigningCertURL"].t = "string"
    /\ ~FailsUrl(c)
    /\ versionUnsupported(Get(calls[c].hash, "SignatureVersion"))

\* the order C16 states: the signature verifier (version check, data fed to
\* the verifier, verification) after the certificate fetch
ClaimedStages ==
    <<"parse", "normalize", "structure", "url", "getCertificate", "version",
      "update", "verify">>
\* the order of the code
StageOrder ==
    <<"parse", "normalize", "structure", "url", "version", "update",
      "getCertificate", "verify">>

====
